---- MODULE Spec2Model ----
(***************************************************************************)
(* Model of the music-trivia generator: top100.py (single language, with   *)
(* cover resolution) and top100_multi.py (multi language, no covers).      *)
(*                                                                         *)
(* Text is modelled as sequences of one-character strings.  Generated text *)
(* uses the alphabet  "{"  "}"  ","  "k"  "x"  where "k" stands for one    *)
(* well-formed JSON member ("key": value) and "x" for any character that   *)
(* is not JSON syntax (prose).  "w" is a member as well, of a question     *)
(* whose correctAnswer is none of its options.                             *)
(***************************************************************************)
EXTENDS Integers, Sequences, FiniteSets, Bags, TLC

VARIABLES
    script,          \* which program runs: "top100" or "top100_multi"
    lines,           \* read_album_data: the lines of the catalog file
    pc,              \* position of the running process
    raw_content,     \* extract_json_from_response: its argument
    extracted,       \* extract_json_from_response: its outcome
    clean_arg,       \* clean_filename: its argument
    cleaned_text,    \* clean_filename: its outcome
    runs,            \* number of runs started so far
    album_data,      \* create_json_format: the catalog of this run
    idx,             \* create_json_format: index of the current entry
    trivia_data,     \* create_json_format: the in-memory store
    json_file,       \* the store file on disk: [exists, text]
    log_file,        \* missing_covers.txt on disk: the bag of its lines
    cover_files,     \* cover image files on disk (their paths)
    cover_url,       \* create_json_format: cover_url of the current album
    lookups,         \* provider calls of the cover chain in progress, in order
    universe,        \* the entries the catalogs are made of
    categories,      \* generate_trivia_for_album: the category pool
    retries,         \* generate_trivia_for_album: its retries argument
    questions,       \* generate_trivia_for_album: the question set
    difficulty,      \* generate_trivia_for_album: index of the difficulty
    used_categories, \* generate_trivia_for_album: categories used
    selected_category,
    attempt,         \* attempts made for the selected category
    sleeps,          \* time.sleep(5) calls taken for the selected category
    usedAtEnd,       \* len(used_categories) of each difficulty when its loop ended
    failCap,         \* failures in a row the capability can produce for one category
    genCalled,       \* keys a generation call was made for in this run
    loaded,          \* what load_existing_json returned in this run
    fileAtStart,     \* the store file as it was when this run started
    persisted        \* the store of the last completed write_json_data

disk    == <<json_file, log_file, cover_files>>
genVars == <<questions, difficulty, used_categories, selected_category,
             attempt, sleeps, usedAtEnd>>
runVars == <<album_data, idx, trivia_data, cover_url, lookups>>
ghosts  == <<genCalled, loaded, fileAtStart, persisted>>
exVars  == <<raw_content, extracted, clean_arg, cleaned_text>>

config == <<script, lines, universe, categories, retries, failCap>>

vars == <<script, lines, pc, raw_content, extracted, clean_arg, cleaned_text, runs, album_data, idx, universe,
          categories,
          trivia_data, json_file, log_file, cover_files, cover_url, lookups,
          retries, questions, difficulty, used_categories, selected_category,
          attempt, sleeps, usedAtEnd, failCap, genCalled, loaded,
          fileAtStart, persisted>>

Scripts == {"top100", "top100_multi"}

(***************************************************************************)
(* Bounds.                                                                 *)
(***************************************************************************)
MaxRaw   == 7        \* longest generated text enumerated for extraction
MaxRuns  == 2        \* runs against the same output path
MaxCat   == 2        \* longest catalog
PoolSize == 3        \* categories in the pool of a generate_trivia_for_album call
PipelinePool == 1    \* categories in the pool when the pipeline runs
MaxFail  == 0        \* failures in a row of the capability in the pipeline
MaxRetries == 3      \* largest retries argument tried on generate_trivia_for_album
MaxLine  == 11       \* longest catalog line enumerated for read_album_data
MaxLines == 3        \* longest catalog file made of the sample lines
MaxText  == 3        \* longest text enumerated for clean_filename

DefaultRetries == 3  \* retries=3
BucketSize == 3      \* while len(questions[difficulty]) < 3

RawAlphabet == {"{", "}", ",", "k", "x"}

RECURSIVE SeqsUpTo(_, _)
SeqsUpTo(S, n) ==
    IF n = 0 THEN {<<>>}
    ELSE LET shorter == SeqsUpTo(S, n - 1)
         IN  shorter \cup {Append(s, c) : s \in {t \in shorter : Len(t) = n - 1}, c \in S}

(***************************************************************************)
(* re.findall(r'\{.*\}', raw_content, re.DOTALL)                           *)
(* A match starts at the first "{" at or after the scan position that has  *)
(* a "}" somewhere after it; ".*" is greedy and DOTALL, so the match runs  *)
(* to the LAST "}" of the text.  Scanning resumes after the match.         *)
(***************************************************************************)
Positions(s, c, from) == {i \in from..Len(s) : s[i] = c}

Min(S) == CHOOSE x \in S : \A y \in S : x <= y
Max(S) == CHOOSE x \in S : \A y \in S : x >= y

RECURSIVE findall(_, _)
findall(s, from) ==
    LET opens  == {o \in Positions(s, "{", from) : Positions(s, "}", o + 1) # {}}
    IN  IF opens = {} THEN <<>>
        ELSE LET o == Min(opens)
                 c == Max(Positions(s, "}", o + 1))
             IN  <<SubSeq(s, o, c)>> \o findall(s, c + 1)

(***************************************************************************)
(* json.loads(match) on the model alphabet: an object is "{" "}" or        *)
(* "{" m ("," m)* "}" with m a member.  Anything else raises               *)
(* JSONDecodeError.  "k" stands for the members of a question whose        *)
(* correctAnswer is one of its options, "w" for the members of a question  *)
(* whose correctAnswer is a string that is none of its options: both are   *)
(* valid JSON, and json.loads does not tell them apart.                    *)
(***************************************************************************)
Members == {"k", "w"}

IsMemberList(inner) ==
    /\ Len(inner) % 2 = 1
    /\ \A i \in 1..Len(inner) :
          IF i % 2 = 1 THEN inner[i] \in Members ELSE inner[i] = ","

json_decodes(text) ==
    /\ Len(text) >= 2
    /\ text[1] = "{"
    /\ text[Len(text)] = "}"
    /\ LET inner == SubSeq(text, 2, Len(text) - 1)
       IN  inner = <<>> \/ IsMemberList(inner)

\* the decoded dict: the sequence of its members
json_loads(text) ==
    LET inner == SubSeq(text, 2, Len(text) - 1)
    IN  [kind |-> "dict", members |-> SelectSeq(inner, LAMBDA c : c \in Members)]

Pending   == [kind |-> "pending", members |-> <<>>]
NoneValue == [kind |-> "None", members |-> <<>>]
ValueErr  == [kind |-> "raise", members |-> <<>>]

\* the loop over matches: return the first one that decodes
RECURSIVE first_decodable(_, _)
first_decodable(matches, i) ==
    IF i > Len(matches) THEN ValueErr
    ELSE IF json_decodes(matches[i]) THEN json_loads(matches[i])
    ELSE first_decodable(matches, i + 1)

\* top100.py catches its own ValueError and returns None;
\* top100_multi.py lets the ValueError propagate to the caller.
extract_json_from_response(raw, scr) ==
    LET r == first_decodable(findall(raw, 1), 1)
    IN  IF r.kind = "raise" /\ scr = "top100" THEN NoneValue ELSE r

(***************************************************************************)
(* read_album_data.  A line is a text over  " "  "-"  "a"  where "a"      *)
(* stands for any character that is neither a space nor a hyphen.  The     *)
(* separator is the three characters  " - ".                               *)
(***************************************************************************)
LineAlphabet == {" ", "-", "a"}

\* line.strip()
strip(s) ==
    LET keep == {i \in 1..Len(s) : s[i] # " "}
    IN  IF keep = {} THEN <<>> ELSE SubSeq(s, Min(keep), Max(keep))

SepAt(s, i) == i + 2 <= Len(s) /\ s[i] = " " /\ s[i + 1] = "-" /\ s[i + 2] = " "

SepPositions(s) == {i \in 1..Len(s) : SepAt(s, i)}

\* s.split(' - ', 1): the list of one or two parts, cut at the leftmost
\* separator
split1(s) ==
    IF SepPositions(s) = {} THEN <<s>>
    ELSE LET p == Min(SepPositions(s))
         IN  <<SubSeq(s, 1, p - 1), SubSeq(s, p + 3, Len(s))>>

\* faulty variant: the year is cut off at the leftmost separator
rsplit1_leftmost(s) ==
    IF SepPositions(s) = {} THEN <<s>>
    ELSE LET p == Min(SepPositions(s))
         IN  <<SubSeq(s, 1, p - 1), SubSeq(s, p + 3, Len(s))>>

\* s.rsplit(' - ', 1): cut at the rightmost separator
rsplit1(s) ==
    IF SepPositions(s) = {} THEN <<s>>
    ELSE LET p == Max(SepPositions(s))
         IN  <<SubSeq(s, 1, p - 1), SubSeq(s, p + 3, Len(s))>>

NoEntry == [artist |-> <<>>, album |-> <<>>, year |-> <<>>]

\* the body of the for loop: unpacking a list of one part into two names
\* raises ValueError, which is caught and the line is skipped
parse_line(line) ==
    LET l  == strip(line)
        ay == rsplit1(l)
    IN  IF Len(ay) # 2 THEN [ok |-> FALSE, entry |-> NoEntry]
        ELSE LET aa == split1(ay[1])
             IN  IF Len(aa) # 2 THEN [ok |-> FALSE, entry |-> NoEntry]
                 ELSE [ok |-> TRUE,
                       entry |-> [artist |-> aa[1], album |-> aa[2],
                                  year |-> ay[2]]]

\* faulty variant: the first line that does not parse ends the reading
RECURSIVE read_album_data_stops(_)
read_album_data_stops(ls) ==
    IF ls = <<>> THEN <<>>
    ELSE LET r == parse_line(Head(ls))
         IN  IF r.ok THEN <<r.entry>> \o read_album_data_stops(Tail(ls))
             ELSE <<>>

RECURSIVE read_album_data(_)
read_album_data(ls) ==
    IF ls = <<>> THEN <<>>
    ELSE LET r == parse_line(Head(ls))
         IN  (IF r.ok THEN <<r.entry>> ELSE <<>>) \o read_album_data(Tail(ls))

(***************************************************************************)
(* Catalog entries.  Artist, album and year are texts.  The first two      *)
(* entries share the key (artist, album) and differ in year; the third     *)
(* differs from them in the case of the artist only.                       *)
(***************************************************************************)
FirstEntry == [artist |-> <<"A">>, album |-> <<"B">>, year |-> <<"1", "9", "7", "8">>]
YearEntry  == [artist |-> <<"A">>, album |-> <<"B">>, year |-> <<"1", "9", "8", "1">>]
CaseEntry  == [artist |-> <<"a">>, album |-> <<"B">>, year |-> <<"1", "9", "7", "8">>]

Entries == {FirstEntry, YearEntry, CaseEntry}

AlbumKey(e) == <<e.artist, e.album>>

\* faulty variant: only the first record gives a key
StoreKeysFirstOnly(store) == {AlbumKey(store[i]) : i \in 1..Min({1, Len(store)})}

\* {(entry["artist"], entry["album"]) for entry in trivia_data}
StoreKeys(store) == {AlbumKey(store[i]) : i \in 1..Len(store)}

(***************************************************************************)
(* clean_filename: re.sub(r'[^A-Za-z0-9]', '_', text).lower()              *)
(***************************************************************************)
UpperCase == <<"A", "B", "C", "D", "E", "F", "G", "H", "I", "J", "K", "L", "M",
               "N", "O", "P", "Q", "R", "S", "T", "U", "V", "W", "X", "Y", "Z">>
LowerCase == <<"a", "b", "c", "d", "e", "f", "g", "h", "i", "j", "k", "l", "m",
               "n", "o", "p", "q", "r", "s", "t", "u", "v", "w", "x", "y", "z">>
Digits    == {"0", "1", "2", "3", "4", "5", "6", "7", "8", "9"}

IsUpper(c) == \E i \in 1..26 : UpperCase[i] = c
IsLower(c) == \E i \in 1..26 : LowerCase[i] = c

clean_char(c) ==
    IF IsUpper(c) THEN LowerCase[CHOOSE i \in 1..26 : UpperCase[i] = c]
    ELSE IF IsLower(c) \/ c \in Digits THEN c
    ELSE "_"

\* faulty variant: the special characters are replaced, the case is kept
clean_filename_keeps_case(text) ==
    [i \in 1..Len(text) |->
        IF IsUpper(text[i]) \/ IsLower(text[i]) \/ text[i] \in Digits
        THEN text[i] ELSE "_"]

clean_filename(text) == [i \in 1..Len(text) |-> clean_char(text[i])]

\* top100.py: f"{cover_directory}/{genre}/{clean_artist}_{clean_album}.jpg"
cover_path_top100(e) ==
    <<"bandcover/genre/">> \o clean_filename(e.artist) \o <<"_">>
        \o clean_filename(e.album) \o <<".jpg">>

\* top100_multi.py: f"/bandcover/{year[:3]}0er/{cover_filename}"
cover_path_multi(e) ==
    <<"/bandcover/">> \o SubSeq(e.year, 1, Min({3, Len(e.year)})) \o <<"0er/">>
        \o clean_filename(e.artist) \o <<"_">> \o clean_filename(e.album)
        \o <<".jpg">>

\* log_missing_cover: "<artist> - <album> - <year> - <clean_artist>_<clean_album>.jpg"
log_entry(e) ==
    e.artist \o <<" - ">> \o e.album \o <<" - ">> \o e.year \o <<" - ">>
        \o clean_filename(e.artist) \o <<"_">> \o clean_filename(e.album)
        \o <<".jpg">>

LogHeader == <<"Fehlende Cover:">>

\* with open(log_file, 'a') as file: file.write(log_entry)
log_missing_cover(log, e) == log (+) SetToBag({log_entry(e)})

NoLog == EmptyBag

(***************************************************************************)
(* Cover URLs.  None and the empty string are both falsy in               *)
(* `if cover_url`.                                                         *)
(***************************************************************************)
NoUrl    == "None"
EmptyUrl == ""
Truthy(url) == url # NoUrl /\ url # EmptyUrl

(***************************************************************************)
(* The question set and the album record.                                  *)
(***************************************************************************)
Difficulties == <<"easy", "medium", "hard">>

\* faulty variant: only the first bucket exists at the start
EmptyQuestionsFirstOnly == [easy |-> <<>>]

\* questions = {"easy": [], "medium": [], "hard": []}
EmptyQuestions == [easy |-> <<>>, medium |-> <<>>, hard |-> <<>>]

NoCover == [isNone |-> TRUE, path |-> <<>>]
CoverAt(path) == [isNone |-> FALSE, path |-> path]

\* faulty variant: coverSrc is the cover path even when no URL was found
new_entry_always_path(e, url, qs, scr) ==
    [artist |-> e.artist, album |-> e.album, year |-> e.year,
     coverSrc |-> IF scr = "top100" THEN CoverAt(cover_path_top100(e))
                  ELSE CoverAt(cover_path_multi(e)),
     links |-> IF scr = "top100" THEN <<>> ELSE <<"", "", "", "">>,
     questions |-> qs]

\* the dict appended to trivia_data by create_json_format
new_entry(e, url, qs, scr) ==
    IF scr = "top100"
    THEN [artist |-> e.artist, album |-> e.album, year |-> e.year,
          coverSrc |-> IF Truthy(url) THEN CoverAt(cover_path_top100(e)) ELSE NoCover,
          links |-> <<>>,
          questions |-> qs]
    ELSE [artist |-> e.artist, album |-> e.album, year |-> e.year,
          coverSrc |-> CoverAt(cover_path_multi(e)),
          links |-> <<"", "", "", "">>,
          questions |-> qs]

(***************************************************************************)
(* The store file.  json.dump writes the text of the array piece by piece, *)
(* and the file holds a prefix of the pieces until it is closed.  A piece  *)
(* is one record with the syntax around it: the first piece starts with    *)
(* "[", the last one ends with "]"; the empty array is the piece "[]".     *)
(* json.load accepts exactly the complete texts.                           *)
(***************************************************************************)
NoRec == [artist |-> <<>>, album |-> <<>>, year |-> <<>>, coverSrc |-> NoCover,
          links |-> <<>>, questions |-> EmptyQuestions]

Piece(open, hasRec, rec, close) ==
    [open |-> open, hasRec |-> hasRec, rec |-> rec, close |-> close]

json_dump(store) ==
    IF Len(store) = 0 THEN <<Piece(TRUE, FALSE, NoRec, TRUE)>>
    ELSE [i \in 1..Len(store) |->
             Piece(i = 1, TRUE, store[i], i = Len(store))]

\* json.load succeeds on the text: "[" (rec ("," rec)*)? "]"
json_load_ok(text) ==
    /\ Len(text) >= 1
    /\ \A i \in 1..Len(text) :
          /\ text[i].open = (i = 1)
          /\ text[i].close = (i = Len(text))
          /\ text[i].hasRec \/ Len(text) = 1

json_load(text) ==
    LET recs == SelectSeq(text, LAMBDA k : k.hasRec)
    IN  [i \in 1..Len(recs) |-> recs[i].rec]

AbsentFile == [exists |-> FALSE, text |-> <<>>]

\* Store files the program did not write.  A file of bytes that are not
\* text in the locale's encoding: file.read() inside json.load raises
\* UnicodeDecodeError, which is not a json.JSONDecodeError.  The text "[1]":
\* valid JSON, so json.load returns the list [1].
EmptyFile       == [exists |-> TRUE, text |-> <<>>]
UndecodableFile == [exists |-> TRUE, text |-> <<[bytes |-> "ff"]>>]
NumberElement   == [number |-> 1]
NumberListFile  ==
    [exists |-> TRUE, text |-> <<Piece(TRUE, TRUE, NumberElement, TRUE)>>]

decodable_text(text) == \A i \in 1..Len(text) : "open" \in DOMAIN text[i]

\* the exception leaves load_existing_json: only JSONDecodeError is caught
load_raises(f) == f.exists /\ ~decodable_text(f.text)

\* entry["artist"], entry["album"] can be evaluated for every element
membership_test_ok(store) ==
    \A i \in 1..Len(store) :
        "artist" \in DOMAIN store[i] /\ "album" \in DOMAIN store[i]

\* load_existing_json: [] when the file is absent or does not decode
load_existing_json(f) ==
    IF ~f.exists THEN <<>>
    ELSE IF json_load_ok(f.text) THEN json_load(f.text)
    ELSE <<>>

(***************************************************************************)
(* The generation capability: a call raises, or returns one of these texts.*)
(***************************************************************************)
GoodText   == <<"{", "k", "}">>
WrappedText == <<"x", "{", "k", "}", "x">>
ProseText  == <<"x">>
EmptyObjText == <<"{", "}">>
TwoCandText == <<"x", "{", "x", "}", "{", "k", "}">>

WrongAnswerText == <<"{", "w", "}">>

GenTexts == {GoodText, WrappedText, ProseText, EmptyObjText, TwoCandText}

Outcomes == {[raises |-> TRUE, text |-> <<>>]}
            \cup {[raises |-> FALSE, text |-> t] : t \in GenTexts}

\* what one attempt's try block computes: the extracted value, or "raise"
\* when the capability or (top100_multi.py) the extraction raises
AttemptValue(out, scr) ==
    IF out.raises THEN ValueErr ELSE extract_json_from_response(out.text, scr)

\* if trivia_json and isinstance(trivia_json, dict)
Accepted(v) == v.kind = "dict" /\ v.members # <<>>

CurrentEntry == album_data[idx]
Diff == Difficulties[difficulty]

NoneUsed == [easy |-> 0, medium |-> 0, hard |-> 0]

(***************************************************************************)
(* generate_trivia_for_album                                               *)
(***************************************************************************)
GenStart ==
    /\ questions' = EmptyQuestions
    /\ difficulty' = 1
    /\ used_categories' = {}
    /\ selected_category' = 0
    /\ attempt' = 0
    /\ sleeps' = 0
    /\ usedAtEnd' = NoneUsed

GenIdle ==
    /\ questions = EmptyQuestions
    /\ difficulty = 1
    /\ used_categories = {}
    /\ selected_category = 0
    /\ attempt = 0
    /\ sleeps = 0
    /\ usedAtEnd = NoneUsed

\* faulty variant: any category of the pool may be picked
GenSelectAny(cat) ==
    /\ pc = "gen"
    /\ Len(questions[Diff]) < BucketSize
    /\ categories \ used_categories # {}
    /\ cat \in categories
    /\ selected_category' = cat
    /\ used_categories' = used_categories \cup {cat}
    /\ attempt' = 0
    /\ sleeps' = 0
    /\ pc' = "call"
    /\ UNCHANGED <<config, exVars, runs, runVars, disk, questions,
                   difficulty, usedAtEnd, ghosts>>

\* faulty variant: the picked category is not added to used_categories
GenSelectNoMark(cat) ==
    /\ pc = "gen"
    /\ Len(questions[Diff]) < BucketSize
    /\ cat \in categories \ used_categories
    /\ selected_category' = cat
    /\ attempt' = 0
    /\ sleeps' = 0
    /\ pc' = "call"
    /\ UNCHANGED <<config, exVars, runs, runVars, disk, questions,
                   difficulty, used_categories, usedAtEnd, ghosts>>

\* while len(questions[difficulty]) < 3: pick an unused category
GenSelect(cat) ==
    /\ pc = "gen"
    /\ Len(questions[Diff]) < BucketSize
    /\ cat \in categories \ used_categories
    /\ selected_category' = cat
    /\ used_categories' = used_categories \cup {cat}
    /\ attempt' = 0
    /\ sleeps' = 0
    /\ pc' = "call"
    /\ UNCHANGED <<config, exVars, runs, runVars, disk, questions,
                   difficulty, usedAtEnd, ghosts>>

\* faulty variant: the loop of a difficulty ends when a category gave no question
GenBucketDoneOnFailure ==
    /\ pc = "gen"
    /\ \/ Len(questions[Diff]) >= BucketSize
       \/ categories \ used_categories = {}
       \/ Len(questions[Diff]) < Cardinality(used_categories)
    /\ usedAtEnd' = [usedAtEnd EXCEPT ![Diff] = Cardinality(used_categories)]
    /\ used_categories' = {}
    /\ IF difficulty < Len(Difficulties)
       THEN difficulty' = difficulty + 1 /\ pc' = "gen"
       ELSE difficulty' = difficulty /\ pc' = "append"
    /\ UNCHANGED <<config, exVars, runs, runVars, disk, questions,
                   selected_category, attempt, sleeps, ghosts>>

\* faulty variant: the loop of a difficulty may end one question early
GenBucketDoneEarly ==
    /\ pc = "gen"
    /\ \/ Len(questions[Diff]) >= BucketSize - 1
       \/ categories \ used_categories = {}
    /\ usedAtEnd' = [usedAtEnd EXCEPT ![Diff] = Cardinality(used_categories)]
    /\ used_categories' = {}
    /\ IF difficulty < Len(Difficulties)
       THEN difficulty' = difficulty + 1 /\ pc' = "gen"
       ELSE difficulty' = difficulty /\ pc' = "append"
    /\ UNCHANGED <<config, exVars, runs, runVars, disk, questions,
                   selected_category, attempt, sleeps, ghosts>>

\* the while loop of one difficulty ends: bucket full, or break on an
\* empty available_categories; then the next difficulty, or return
GenBucketDone ==
    /\ pc = "gen"
    /\ \/ Len(questions[Diff]) >= BucketSize
       \/ categories \ used_categories = {}
    /\ usedAtEnd' = [usedAtEnd EXCEPT ![Diff] = Cardinality(used_categories)]
    /\ used_categories' = {}
    /\ IF difficulty < Len(Difficulties)
       THEN difficulty' = difficulty + 1 /\ pc' = "gen"
       ELSE difficulty' = difficulty /\ pc' = "append"
    /\ UNCHANGED <<config, exVars, runs, runVars, disk, questions,
                   selected_category, attempt, sleeps, ghosts>>

\* faulty variant: the delay is taken after every exception
GenAttemptSleepAlways(out) ==
    /\ pc = "call"
    /\ LET v   == AttemptValue(out, script)
           ok  == Accepted(v)
           exc == v.kind = "raise"
           last == attempt + 1 >= retries
       IN  /\ ok \/ attempt < failCap
           /\ questions' = IF ok THEN [questions EXCEPT ![Diff] = Append(@, v)]
                           ELSE questions
           /\ sleeps' = IF exc THEN sleeps + 1 ELSE sleeps
           /\ attempt' = attempt + 1
           /\ pc' = IF ok \/ last THEN "gen" ELSE "call"
    /\ genCalled' = genCalled \cup {AlbumKey(CurrentEntry)}
    /\ UNCHANGED <<config, exVars, runs, runVars, disk, difficulty,
                   used_categories, selected_category, usedAtEnd, loaded,
                   fileAtStart, persisted>>

\* faulty variant: no break after a question was appended
GenAttemptNoBreak(out) ==
    /\ pc = "call"
    /\ LET v   == AttemptValue(out, script)
           ok  == Accepted(v)
           exc == v.kind = "raise"
           last == attempt + 1 >= retries
       IN  /\ ok \/ attempt < failCap
           /\ questions' = IF ok THEN [questions EXCEPT ![Diff] = Append(@, v)]
                           ELSE questions
           /\ sleeps' = IF exc /\ attempt < retries - 1 THEN sleeps + 1 ELSE sleeps
           /\ attempt' = attempt + 1
           /\ pc' = IF last THEN "gen" ELSE "call"
    /\ genCalled' = genCalled \cup {AlbumKey(CurrentEntry)}
    /\ UNCHANGED <<config, exVars, runs, runVars, disk, difficulty,
                   used_categories, selected_category, usedAtEnd, loaded,
                   fileAtStart, persisted>>

\* faulty variant: a text without a usable dict ends the retry loop
GenAttemptBreakOnNone(out) ==
    /\ pc = "call"
    /\ LET v   == AttemptValue(out, script)
           ok  == Accepted(v)
           exc == v.kind = "raise"
           last == attempt + 1 >= retries
       IN  /\ ok \/ attempt < failCap
           /\ questions' = IF ok THEN [questions EXCEPT ![Diff] = Append(@, v)]
                           ELSE questions
           /\ sleeps' = IF exc /\ attempt < retries - 1 THEN sleeps + 1 ELSE sleeps
           /\ attempt' = attempt + 1
           /\ pc' = IF ok \/ last \/ ~exc THEN "gen" ELSE "call"
    /\ genCalled' = genCalled \cup {AlbumKey(CurrentEntry)}
    /\ UNCHANGED <<config, exVars, runs, runVars, disk, difficulty,
                   used_categories, selected_category, usedAtEnd, loaded,
                   fileAtStart, persisted>>

\* faulty variant: one attempt more than retries
GenAttemptExtra(out) ==
    /\ pc = "call"
    /\ LET v   == AttemptValue(out, script)
           ok  == Accepted(v)
           exc == v.kind = "raise"
           last == attempt + 1 >= retries + 1
       IN  /\ ok \/ attempt < failCap
           /\ questions' = IF ok THEN [questions EXCEPT ![Diff] = Append(@, v)]
                           ELSE questions
           /\ sleeps' = IF exc /\ attempt < retries - 1 THEN sleeps + 1 ELSE sleeps
           /\ attempt' = attempt + 1
           /\ pc' = IF ok \/ last THEN "gen" ELSE "call"
    /\ genCalled' = genCalled \cup {AlbumKey(CurrentEntry)}
    /\ UNCHANGED <<config, exVars, runs, runVars, disk, difficulty,
                   used_categories, selected_category, usedAtEnd, loaded,
                   fileAtStart, persisted>>

\* one pass of `for attempt in range(retries)`
GenAttempt(out) ==
    /\ pc = "call"
    /\ LET v   == AttemptValue(out, script)
           ok  == Accepted(v)
           exc == v.kind = "raise"
           last == attempt + 1 >= retries
       IN  /\ ok \/ attempt < failCap
           /\ questions' = IF ok THEN [questions EXCEPT ![Diff] = Append(@, v)]
                           ELSE questions
           /\ sleeps' = IF exc /\ attempt < retries - 1 THEN sleeps + 1 ELSE sleeps
           /\ attempt' = attempt + 1
           /\ pc' = IF ok \/ last THEN "gen" ELSE "call"
    /\ genCalled' = genCalled \cup {AlbumKey(CurrentEntry)}
    /\ UNCHANGED <<config, exVars, runs, runVars, disk, difficulty,
                   used_categories, selected_category, usedAtEnd, loaded,
                   fileAtStart, persisted>>

(***************************************************************************)
(* create_json_format                                                      *)
(***************************************************************************)
Stopped == {"init", "done", "aborted", "killed"}

RunIdle ==
    /\ album_data = <<>>
    /\ idx = 1
    /\ trivia_data = <<>>
    /\ cover_url = NoUrl
    /\ lookups = <<>>

RunReset ==
    /\ album_data' = <<>>
    /\ idx' = 1
    /\ trivia_data' = <<>>
    /\ cover_url' = NoUrl
    /\ lookups' = <<>>

\* main: a new process; load the store, create the log file if missing
StartRun(catalog) ==
    /\ pc \in Stopped
    /\ runs < MaxRuns
    /\ runs' = runs + 1
    /\ album_data' = catalog
    /\ idx' = 1
    /\ LET store == IF load_raises(json_file) THEN <<>>
                    ELSE load_existing_json(json_file)
       IN  /\ trivia_data' = store
           /\ loaded' = store
           /\ persisted' = store
    /\ fileAtStart' = json_file
    /\ genCalled' = {}
    /\ log_file' = IF script = "top100" /\ log_file = NoLog
                      /\ ~load_raises(json_file)
                   THEN SetToBag({LogHeader}) ELSE log_file
    /\ cover_url' = NoUrl
    /\ lookups' = <<>>
    /\ pc' = IF load_raises(json_file) THEN "aborted" ELSE "loop"
    /\ UNCHANGED <<config, exVars, json_file, cover_files, genVars>>

\* faulty variant: membership is tested against the store as loaded, not as appended to
InStoreAsLoaded == AlbumKey(CurrentEntry) \in StoreKeys(loaded)

\* faulty variant: only the first record of the store is looked at
InStoreFirstOnly ==
    /\ trivia_data # <<>>
    /\ AlbumKey(CurrentEntry) = AlbumKey(trivia_data[1])

\* faulty variant: the pair is tested in the wrong order
InStoreSwapped ==
    <<CurrentEntry.album, CurrentEntry.artist>> \in StoreKeys(trivia_data)

\* faulty variant: the year takes part in the test
InStoreWithYear ==
    \E i \in 1..Len(trivia_data) :
        /\ AlbumKey(trivia_data[i]) = AlbumKey(CurrentEntry)
        /\ trivia_data[i].year = CurrentEntry.year

\* if (artist, album) in {(entry["artist"], entry["album"]) for entry in trivia_data}
InStore == AlbumKey(CurrentEntry) \in StoreKeys(trivia_data)

\* the album is already in trivia_data: continue
LoopSkip ==
    /\ pc = "loop"
    /\ idx <= Len(album_data)
    /\ membership_test_ok(trivia_data)
    /\ InStore
    /\ idx' = idx + 1
    /\ UNCHANGED <<config, pc, exVars, runs, album_data, trivia_data,
                   cover_url, lookups, disk, genVars, ghosts>>

\* the set comprehension of the membership test raises TypeError or
\* KeyError on an element that is not an album record: the run ends
MembershipRaises ==
    /\ pc = "loop"
    /\ idx <= Len(album_data)
    /\ ~membership_test_ok(trivia_data)
    /\ pc' = "aborted"
    /\ UNCHANGED <<config, exVars, runs, runVars, disk, genVars, ghosts>>

\* the for loop is over: create_json_format returns
LoopEnd ==
    /\ pc = "loop"
    /\ idx > Len(album_data)
    /\ pc' = "done"
    /\ UNCHANGED <<config, exVars, runs, runVars, disk, genVars, ghosts>>

Lookup(provider, url) == [provider |-> provider, url |-> url]

\* What a provider's API does when asked: it yields a URL, yields nothing
\* (None or, for Last.fm, an empty '#text'), or throws ("raise").
\* get_lastfm_album_cover and get_discogs_album_cover wrap the request in
\* try/except Exception and return None; get_spotify_album_cover has no
\* try/except, so the exception leaves the function.
get_lastfm_album_cover(out) == IF out = "raise" THEN NoUrl ELSE out
get_spotify_album_cover(out) == out
get_discogs_album_cover(out) == IF out = "raise" THEN NoUrl ELSE out

\* faulty variant: Spotify is asked even when Last.fm returned a URL
LastfmNoShortCircuit(url) ==
    /\ pc = "loop"
    /\ script = "top100"
    /\ idx <= Len(album_data)
    /\ membership_test_ok(trivia_data)
    /\ ~InStore
    /\ url \in {NoUrl, EmptyUrl, "url", "raise"}
    /\ cover_url' = get_lastfm_album_cover(url)
    /\ lookups' = <<Lookup("lastfm", get_lastfm_album_cover(url))>>
    /\ pc' = "spotify"
    /\ UNCHANGED <<config, exVars, runs, album_data, idx, trivia_data, disk,
                   genVars, ghosts>>

\* faulty variant: Last.fm is asked before the membership test
LastfmBeforeMembership(url) ==
    /\ pc = "loop"
    /\ script = "top100"
    /\ idx <= Len(album_data)
    /\ membership_test_ok(trivia_data)
    /\ url \in {NoUrl, EmptyUrl, "url", "raise"}
    /\ cover_url' = get_lastfm_album_cover(url)
    /\ lookups' = <<Lookup("lastfm", get_lastfm_album_cover(url))>>
    /\ pc' = IF Truthy(get_lastfm_album_cover(url)) THEN "download" ELSE "spotify"
    /\ UNCHANGED <<config, exVars, runs, album_data, idx, trivia_data, disk,
                   genVars, ghosts>>

\* cover_url = get_lastfm_album_cover(artist, album)
Lastfm(url) ==
    /\ pc = "loop"
    /\ script = "top100"
    /\ idx <= Len(album_data)
    /\ membership_test_ok(trivia_data)
    /\ ~InStore
    /\ url \in {NoUrl, EmptyUrl, "url", "raise"}
    /\ cover_url' = get_lastfm_album_cover(url)
    /\ lookups' = <<Lookup("lastfm", get_lastfm_album_cover(url))>>
    /\ pc' = IF Truthy(get_lastfm_album_cover(url)) THEN "download" ELSE "spotify"
    /\ UNCHANGED <<config, exVars, runs, album_data, idx, trivia_data, disk,
                   genVars, ghosts>>

\* if not cover_url: cover_url = get_spotify_album_cover(artist, album)
\* (no try/except in get_spotify_album_cover: an exception ends the run)
Spotify(url) ==
    /\ pc = "spotify"
    /\ url \in {NoUrl, "url", "raise"}
    /\ lookups' = Append(lookups, Lookup("spotify", get_spotify_album_cover(url)))
    /\ IF get_spotify_album_cover(url) = "raise"
       THEN pc' = "aborted" /\ UNCHANGED cover_url
       ELSE /\ cover_url' = get_spotify_album_cover(url)
            /\ pc' = IF Truthy(url) THEN "download" ELSE "discogs"
    /\ UNCHANGED <<config, exVars, runs, album_data, idx, trivia_data, disk,
                   genVars, ghosts>>

\* faulty variant: nothing is logged when no provider gave a URL
DiscogsSilent(url) ==
    /\ pc = "discogs"
    /\ url \in {NoUrl, "url", "raise"}
    /\ cover_url' = get_discogs_album_cover(url)
    /\ IF Truthy(get_discogs_album_cover(url))
       THEN /\ pc' = "download"
            /\ lookups' = Append(lookups, Lookup("discogs", url))
            /\ UNCHANGED <<log_file, genVars>>
       ELSE /\ UNCHANGED log_file
            /\ lookups' = <<>>
            /\ pc' = "gen"
            /\ GenStart
    /\ UNCHANGED <<config, exVars, runs, album_data, idx, trivia_data,
                   json_file, cover_files, ghosts>>

\* if not cover_url: cover_url = get_discogs_album_cover(artist, album);
\* with no URL, log_missing_cover; then generate_trivia_for_album starts
Discogs(url) ==
    /\ pc = "discogs"
    /\ url \in {NoUrl, "url", "raise"}
    /\ cover_url' = get_discogs_album_cover(url)
    /\ IF Truthy(get_discogs_album_cover(url))
       THEN /\ pc' = "download"
            /\ lookups' = Append(lookups, Lookup("discogs", url))
            /\ UNCHANGED <<log_file, genVars>>
       ELSE /\ log_file' = log_missing_cover(log_file, CurrentEntry)
            /\ lookups' = <<>>
            /\ pc' = "gen"
            /\ GenStart
    /\ UNCHANGED <<config, exVars, runs, album_data, idx, trivia_data,
                   json_file, cover_files, ghosts>>

\* faulty variant: a failed download takes the URL away
DownloadClearsUrl(success) ==
    /\ pc = "download"
    /\ success \in BOOLEAN
    /\ IF success
       THEN /\ cover_files' = cover_files \cup {cover_path_top100(CurrentEntry)}
            /\ UNCHANGED <<log_file, cover_url>>
       ELSE /\ log_file' = log_missing_cover(log_file, CurrentEntry)
            /\ cover_url' = NoUrl
            /\ UNCHANGED cover_files
    /\ lookups' = <<>>
    /\ pc' = "gen"
    /\ GenStart
    /\ UNCHANGED <<config, exVars, runs, album_data, idx, trivia_data,
                   json_file, ghosts>>

\* faulty variant: a failed download is not logged
DownloadSilent(success) ==
    /\ pc = "download"
    /\ success \in BOOLEAN
    /\ cover_files' = IF success
                      THEN cover_files \cup {cover_path_top100(CurrentEntry)}
                      ELSE cover_files
    /\ UNCHANGED log_file
    /\ lookups' = <<>>
    /\ pc' = "gen"
    /\ GenStart
    /\ UNCHANGED <<config, exVars, runs, album_data, idx, trivia_data,
                   cover_url, json_file, ghosts>>

\* success = download_and_resize_album_cover(cover_url, cover_path);
\* if not success: log_missing_cover; then generate_trivia_for_album starts
Download(success) ==
    /\ pc = "download"
    /\ success \in BOOLEAN
    /\ IF success
       THEN /\ cover_files' = cover_files \cup {cover_path_top100(CurrentEntry)}
            /\ UNCHANGED log_file
       ELSE /\ log_file' = log_missing_cover(log_file, CurrentEntry)
            /\ UNCHANGED cover_files
    /\ lookups' = <<>>
    /\ pc' = "gen"
    /\ GenStart
    /\ UNCHANGED <<config, exVars, runs, album_data, idx, trivia_data,
                   cover_url, json_file, ghosts>>

\* top100_multi.py has no cover resolution: generation starts at once
BeginEntry ==
    /\ pc = "loop"
    /\ script = "top100_multi"
    /\ idx <= Len(album_data)
    /\ membership_test_ok(trivia_data)
    /\ ~InStore
    /\ pc' = "gen"
    /\ GenStart
    /\ UNCHANGED <<config, exVars, runs, runVars, disk, ghosts>>

\* faulty variant: the new record takes the place of the last one
AppendAndOpenReplace ==
    /\ pc = "append"
    /\ runs > 0
    /\ trivia_data' =
          SubSeq(trivia_data, 1, Len(trivia_data) - 1)
              \o <<new_entry(CurrentEntry, cover_url, questions, script)>>
    /\ json_file' = [exists |-> TRUE, text |-> <<>>]
    /\ GenStart
    /\ pc' = "write"
    /\ UNCHANGED <<config, exVars, runs, album_data, idx, cover_url, lookups,
                   log_file, cover_files, ghosts>>

\* faulty variant: the new record is put in front of the store
AppendAndOpenFront ==
    /\ pc = "append"
    /\ runs > 0
    /\ trivia_data' = <<new_entry(CurrentEntry, cover_url, questions, script)>>
                          \o trivia_data
    /\ json_file' = [exists |-> TRUE, text |-> <<>>]
    /\ GenStart
    /\ pc' = "write"
    /\ UNCHANGED <<config, exVars, runs, album_data, idx, cover_url, lookups,
                   log_file, cover_files, ghosts>>

\* faulty variant: the record is appended and written while generation is going on
AppendAndOpenEarly ==
    /\ pc \in {"append", "gen"}
    /\ runs > 0
    /\ trivia_data' = Append(trivia_data,
                             new_entry(CurrentEntry, cover_url, questions, script))
    /\ json_file' = [exists |-> TRUE, text |-> <<>>]
    /\ GenStart
    /\ pc' = "write"
    /\ UNCHANGED <<config, exVars, runs, album_data, idx, cover_url, lookups,
                   log_file, cover_files, ghosts>>

\* trivia_data.append({...}); write_json_data: open(json_file, 'w')
\* truncates the file
AppendAndOpen ==
    /\ pc = "append"
    /\ runs > 0
    /\ trivia_data' = Append(trivia_data,
                             new_entry(CurrentEntry, cover_url, questions, script))
    /\ json_file' = [exists |-> TRUE, text |-> <<>>]
    /\ GenStart
    /\ pc' = "write"
    /\ UNCHANGED <<config, exVars, runs, album_data, idx, cover_url, lookups,
                   log_file, cover_files, ghosts>>

\* write_json_data: the next piece of json.dump reaches the file; after the
\* last piece the file is closed and the loop goes to the next entry
WritePiece ==
    /\ pc = "write"
    /\ LET text == json_dump(trivia_data)
           n    == Len(json_file.text) + 1
       IN  /\ n <= Len(text)
           /\ json_file' = [json_file EXCEPT !.text = Append(@, text[n])]
           /\ IF n = Len(text)
              THEN /\ pc' = "loop"
                   /\ idx' = idx + 1
                   /\ persisted' = trivia_data
              ELSE UNCHANGED <<pc, idx, persisted>>
    /\ UNCHANGED <<config, exVars, runs, album_data, trivia_data, cover_url,
                   lookups, log_file, cover_files, genVars, genCalled,
                   loaded, fileAtStart>>

\* external termination of the process, at any point of a run: the files
\* stay as they are, the memory of the process is gone
Kill ==
    /\ pc \notin Stopped
    /\ runs > 0
    /\ pc' = "killed"
    /\ RunReset
    /\ GenStart
    /\ genCalled' = {}
    /\ loaded' = <<>>
    /\ fileAtStart' = AbsentFile
    /\ UNCHANGED <<config, exVars, runs, disk, persisted>>

Init ==
    /\ script \in Scripts
    /\ lines = <<>>
    /\ pc = "init"
    /\ raw_content = <<>>
    /\ extracted = Pending
    /\ clean_arg = <<>>
    /\ cleaned_text = <<>>
    /\ runs = 0
    /\ RunIdle
    /\ json_file = AbsentFile
    /\ log_file = NoLog
    /\ cover_files = {}
    /\ universe = {FirstEntry, CaseEntry}
    /\ categories = 1..PipelinePool
    /\ retries = DefaultRetries
    /\ GenIdle
    /\ failCap = MaxFail
    /\ genCalled = {}
    /\ loaded = <<>>
    /\ fileAtStart = AbsentFile
    /\ persisted = <<>>

Next ==
    \/ \E catalog \in SeqsUpTo(universe, MaxCat) : StartRun(catalog)
    \/ LoopSkip
    \/ LoopEnd
    \/ \E url \in {NoUrl, EmptyUrl, "url", "raise"} : Lastfm(url)
    \/ \E url \in {NoUrl, "url", "raise"} : Spotify(url)
    \/ \E url \in {NoUrl, "url", "raise"} : Discogs(url)
    \/ \E success \in BOOLEAN : Download(success)
    \/ BeginEntry
    \/ \E cat \in 1..PoolSize : GenSelect(cat)
    \/ GenBucketDone
    \/ \E out \in Outcomes : GenAttempt(out)
    \/ AppendAndOpen
    \/ WritePiece
    \/ Kill

Spec == Init /\ [][Next]_vars

(***************************************************************************)
(* Specification SpecGen: one call of generate_trivia_for_album, with any  *)
(* retries argument and a capability that may fail on every call.          *)
(***************************************************************************)
InitGen ==
    /\ script \in Scripts
    /\ lines = <<>>
    /\ pc = "gen"
    /\ raw_content = <<>>
    /\ extracted = Pending
    /\ clean_arg = <<>>
    /\ cleaned_text = <<>>
    /\ runs = 0
    /\ universe = {FirstEntry}
    /\ categories = 1..PoolSize
    /\ album_data = <<FirstEntry>>
    /\ idx = 1
    /\ trivia_data = <<>>
    /\ cover_url = NoUrl
    /\ lookups = <<>>
    /\ json_file = AbsentFile
    /\ log_file = NoLog
    /\ cover_files = {}
    /\ retries \in 1..MaxRetries
    /\ GenIdle
    /\ failCap = retries
    /\ genCalled = {}
    /\ loaded = <<>>
    /\ fileAtStart = AbsentFile
    /\ persisted = <<>>

NextGen ==
    \/ \E cat \in 1..PoolSize : GenSelect(cat)
    \/ GenBucketDone
    \/ \E out \in Outcomes : GenAttempt(out)

SpecGen == InitGen /\ [][NextGen]_vars

(***************************************************************************)
(* Specification SpecAnswer: generate_trivia_for_album with a capability   *)
(* that always returns a question, whose correctAnswer may or may not be   *)
(* one of its options.                                                     *)
(***************************************************************************)
AnswerOutcomes == {[raises |-> FALSE, text |-> t] : t \in {GoodText, WrongAnswerText}}

InitAnswer ==
    /\ InitGen
    /\ retries = DefaultRetries

NextAnswer ==
    \/ \E cat \in 1..PoolSize : GenSelect(cat)
    \/ GenBucketDone
    \/ \E out \in AnswerOutcomes : GenAttempt(out)

SpecAnswer == InitAnswer /\ [][NextAnswer]_vars

(***************************************************************************)
(* Specification SpecYear: the pipeline on catalogs made of two entries    *)
(* that differ only in year.                                               *)
(***************************************************************************)
InitYear ==
    /\ script \in Scripts
    /\ lines = <<>>
    /\ pc = "init"
    /\ raw_content = <<>>
    /\ extracted = Pending
    /\ clean_arg = <<>>
    /\ cleaned_text = <<>>
    /\ runs = 0
    /\ RunIdle
    /\ json_file = AbsentFile
    /\ log_file = NoLog
    /\ cover_files = {}
    /\ universe = {FirstEntry, YearEntry}
    /\ categories = 1..PipelinePool
    /\ retries = DefaultRetries
    /\ GenIdle
    /\ failCap = MaxFail
    /\ genCalled = {}
    /\ loaded = <<>>
    /\ fileAtStart = AbsentFile
    /\ persisted = <<>>

SpecYear == InitYear /\ [][Next]_vars

(***************************************************************************)
(* Specification SpecGenFair: SpecGen in which every call of the           *)
(* capability returns or raises, so that generate_trivia_for_album always  *)
(* takes its next step.                                                    *)
(***************************************************************************)
SpecGenFair == InitGen /\ [][NextGen]_vars /\ WF_vars(NextGen)

(***************************************************************************)
(* Specification SpecNoCand: generate_trivia_for_album with a capability   *)
(* that always returns a text, which may hold no decodable candidate.      *)
(***************************************************************************)
NoCandidate(text) == first_decodable(findall(text, 1), 1).kind = "raise"

NoCandOutcomes ==
    {[raises |-> FALSE, text |-> t] : t \in {GoodText, ProseText, TwoCandText}}

NextNoCand ==
    \/ \E cat \in 1..PoolSize : GenSelect(cat)
    \/ GenBucketDone
    \/ \E out \in NoCandOutcomes : GenAttempt(out)

SpecNoCand == InitGen /\ [][NextNoCand]_vars

(***************************************************************************)
(* Specification SpecExtract: extract_json_from_response applied to every  *)
(* text over the alphabet up to MaxRaw characters, in either program.      *)
(***************************************************************************)
InitExtract ==
    /\ script \in Scripts
    /\ lines = <<>>
    /\ pc = "extract"
    /\ raw_content \in SeqsUpTo(RawAlphabet, MaxRaw)
    /\ extracted = Pending
    /\ clean_arg = <<>>
    /\ cleaned_text = <<>>
    /\ runs = 0
    /\ RunIdle
    /\ json_file = AbsentFile
    /\ log_file = NoLog
    /\ cover_files = {}
    /\ universe = {}
    /\ categories = {}
    /\ retries = DefaultRetries
    /\ GenIdle
    /\ failCap = 0
    /\ genCalled = {}
    /\ loaded = <<>>
    /\ fileAtStart = AbsentFile
    /\ persisted = <<>>

Extract ==
    /\ pc = "extract"
    /\ extracted' = extract_json_from_response(raw_content, script)
    /\ pc' = "extracted"
    /\ UNCHANGED <<config, raw_content, clean_arg, cleaned_text, runs, runVars,
                   disk, genVars, ghosts>>

NextExtract == Extract

SpecExtract == InitExtract /\ [][NextExtract]_vars

(***************************************************************************)
(* Specification SpecLoad: the pipeline run against an output path at      *)
(* which any of the store files above may be found.                        *)
(***************************************************************************)
StoreFiles == {AbsentFile, EmptyFile, UndecodableFile, NumberListFile}

InitLoad ==
    /\ script \in Scripts
    /\ lines = <<>>
    /\ pc = "init"
    /\ raw_content = <<>>
    /\ extracted = Pending
    /\ clean_arg = <<>>
    /\ cleaned_text = <<>>
    /\ runs = 0
    /\ RunIdle
    /\ json_file \in StoreFiles
    /\ log_file = NoLog
    /\ cover_files = {}
    /\ universe = {FirstEntry}
    /\ categories = 1..PipelinePool
    /\ retries = DefaultRetries
    /\ GenIdle
    /\ failCap = MaxFail
    /\ genCalled = {}
    /\ loaded = <<>>
    /\ fileAtStart = AbsentFile
    /\ persisted = <<>>

NextLoad ==
    \/ Next
    \/ MembershipRaises

SpecLoad == InitLoad /\ [][NextLoad]_vars

(***************************************************************************)
(* Specification SpecRead: read_album_data applied to every one-line       *)
(* catalog file up to MaxLine characters, and to every file of up to       *)
(* MaxLines of the sample lines.  The function is the same text in both    *)
(* programs.                                                               *)
(***************************************************************************)
GoodLine    == <<"a", " ", "-", " ", "a", " ", "-", " ", "a">>
PaddedLine  == <<" ", "-", "a", " ", "-", " ", "a", " ", "-", " ", "a", " ">>
OneSepLine  == <<"a", " ", "-", " ", "a">>
BlankLine   == <<" ">>

SampleLines == {GoodLine, PaddedLine, OneSepLine, BlankLine}

InitRead ==
    /\ script = "top100"
    /\ lines \in {<<l>> : l \in SeqsUpTo(LineAlphabet, MaxLine)}
                 \cup SeqsUpTo(SampleLines, MaxLines)
    /\ pc = "read"
    /\ raw_content = <<>>
    /\ extracted = Pending
    /\ clean_arg = <<>>
    /\ cleaned_text = <<>>
    /\ runs = 0
    /\ RunIdle
    /\ json_file = AbsentFile
    /\ log_file = NoLog
    /\ cover_files = {}
    /\ universe = {}
    /\ categories = {}
    /\ retries = DefaultRetries
    /\ GenIdle
    /\ failCap = 0
    /\ genCalled = {}
    /\ loaded = <<>>
    /\ fileAtStart = AbsentFile
    /\ persisted = <<>>

\* albums = read_album_data(args.file_path)
ReadAlbumData ==
    /\ pc = "read"
    /\ album_data' = read_album_data(lines)
    /\ pc' = "parsed"
    /\ UNCHANGED <<config, exVars, runs, idx, trivia_data, cover_url, lookups,
                   disk, genVars, ghosts>>

NextRead == ReadAlbumData

SpecRead == InitRead /\ [][NextRead]_vars

(***************************************************************************)
(* Specification SpecClean: clean_filename applied to every text up to     *)
(* MaxText characters over letters of both cases, digits, the underscore,  *)
(* punctuation and a letter outside A-Z.  The function is the same text in *)
(* both programs.                                                          *)
(***************************************************************************)
CleanAlphabet == {"A", "Z", "b", "7", "_", " ", "/", "e'"}

InitClean ==
    /\ script \in Scripts
    /\ lines = <<>>
    /\ pc = "clean"
    /\ raw_content = <<>>
    /\ extracted = Pending
    /\ clean_arg \in SeqsUpTo(CleanAlphabet, MaxText)
    /\ cleaned_text = <<>>
    /\ runs = 0
    /\ RunIdle
    /\ json_file = AbsentFile
    /\ log_file = NoLog
    /\ cover_files = {}
    /\ universe = {}
    /\ categories = {}
    /\ retries = DefaultRetries
    /\ GenIdle
    /\ failCap = 0
    /\ genCalled = {}
    /\ loaded = <<>>
    /\ fileAtStart = AbsentFile
    /\ persisted = <<>>

\* cleaned_text = clean_filename(text)
CleanFilename ==
    /\ pc = "clean"
    /\ cleaned_text' = clean_filename(clean_arg)
    /\ pc' = "cleaned"
    /\ UNCHANGED <<config, raw_content, extracted, clean_arg, runs, runVars,
                   disk, genVars, ghosts>>

NextClean == CleanFilename

SpecClean == InitClean /\ [][NextClean]_vars

(***************************************************************************)
(* Properties                                                              *)
(***************************************************************************)
Running == pc \notin Stopped

StoreOnDisk == load_existing_json(json_file)

UniqueKeys(store) ==
    \A i, j \in 1..Len(store) : i # j => AlbumKey(store[i]) # AlbumKey(store[j])

Records(store) == {store[i] : i \in 1..Len(store)}

CatalogKeys == {AlbumKey(album_data[i]) : i \in 1..Len(album_data)}

\* C1: after any sequence of runs against the same output path (any
\* catalogs, repeated lines, terminations), no two records of the store, on
\* disk or in memory, share the same (artist, album) key.
C1_UniqueKeys ==
    /\ UniqueKeys(StoreOnDisk)
    /\ UniqueKeys(trivia_data)

\* a second run, on a catalog that repeats a line, has added that album once
\* to a store that already held another album
C1_Witness ==
    /\ pc = "done"
    /\ runs = 2
    /\ Len(album_data) = 2
    /\ album_data[1] = album_data[2]
    /\ Len(loaded) = 1
    /\ Len(StoreOnDisk) = 2

\* C2: if the process is terminated after album K has been persisted, the
\* store file holds exactly the records persisted so far (albums 1..K and
\* none for K+1), which is what the next run loads and skips.
C2_FileHoldsPersisted ==
    pc = "killed" => StoreOnDisk = persisted

\* C3: termination at any point of a run, also while write_json_data is
\* rewriting the file, loses no record that was persisted before it: the
\* next run's load_existing_json still returns each of them.
C3_PersistedSurvivesKill ==
    pc = "killed" => Records(persisted) \subseteq Records(StoreOnDisk)

BraceFree(text) == \A i \in 1..Len(text) : text[i] \notin {"{", "}"}

Candidate(text) ==
    /\ Len(text) >= 2
    /\ text[1] = "{"
    /\ text[Len(text)] = "}"
    /\ BraceFree(SubSeq(text, 2, Len(text) - 1))

\* C9: for a text made of prose followed by two brace-delimited substrings
\* of which only the second decodes, extract_json_from_response returns the
\* decoded content of the second.
C9_SecondCandidateReturned ==
    pc = "extracted" =>
        \A i, j \in 1..Len(raw_content) :
            LET prose  == SubSeq(raw_content, 1, i)
                first  == SubSeq(raw_content, i + 1, j)
                second == SubSeq(raw_content, j + 1, Len(raw_content))
            IN  ( /\ i < j
                  /\ BraceFree(prose)
                  /\ Candidate(first) /\ ~json_decodes(first)
                  /\ Candidate(second) /\ json_decodes(second) )
                => extracted = json_loads(second)

MidAlbum == pc \in {"spotify", "discogs", "download", "gen", "call", "append"}

\* generate_trivia_for_album has returned a finished question set
Finished ==
    /\ pc = "append"
    /\ \A i \in 1..Len(Difficulties) :
          \/ Len(questions[Difficulties[i]]) >= BucketSize
          \/ usedAtEnd[Difficulties[i]] = Cardinality(categories)

\* C4: the atomicity unit is one whole album record.  Within a run the store
\* grows only by the record of the current album, built from a question set
\* whose three buckets have finished generating; the store file never holds
\* a record that is not in the store; while an album is in progress nothing
\* of it is in the store file; and generation always starts from empty
\* buckets.
C4_WholeAlbumOnly ==
    [][ /\ (Running /\ Running' /\ trivia_data' # trivia_data) =>
              /\ Finished
              /\ trivia_data' = Append(trivia_data, trivia_data'[Len(trivia_data')])
              /\ trivia_data'[Len(trivia_data')].questions = questions
              /\ AlbumKey(trivia_data'[Len(trivia_data')]) = AlbumKey(CurrentEntry)
        /\ Running' => Records(StoreOnDisk') \subseteq Records(trivia_data')
        /\ MidAlbum' => AlbumKey(CurrentEntry') \notin StoreKeys(StoreOnDisk')
        /\ (pc' = "gen" /\ pc \notin {"gen", "call"}) => questions' = EmptyQuestions
      ]_vars

\* the second album of a catalog is half generated while the first one is
\* in the store file
C4_Witness ==
    /\ pc = "call"
    /\ idx = 2
    /\ Len(StoreOnDisk) = 1
    /\ questions["easy"] # <<>>

\* C5: for every album X of the store as loaded, the run makes no generation
\* call for X and leaves X's record where it was, unchanged: in memory
\* during the run, and in the store file when the run has ended.
C5_LoadedAlbumUntouched ==
    (Running \/ pc \in {"done", "aborted"}) =>
        \A i \in 1..Len(loaded) :
            /\ AlbumKey(loaded[i]) \notin genCalled
            /\ i <= Len(trivia_data)
            /\ trivia_data[i] = loaded[i]
            /\ pc \in {"done", "aborted"} =>
                  /\ i <= Len(StoreOnDisk)
                  /\ StoreOnDisk[i] = loaded[i]

\* a run is over whose catalog held an album of the loaded store and an
\* album that had to be generated
C5_Witness ==
    /\ pc = "done"
    /\ Len(loaded) = 1
    /\ AlbumKey(loaded[1]) \in CatalogKeys
    /\ genCalled # {}
    /\ Len(StoreOnDisk) = 2

\* C6: a run on a catalog whose every album is in the loaded store makes no
\* generation call and leaves the store file exactly as it was.
C6_NothingToDo ==
    ( /\ Running \/ pc \in {"done", "aborted"}
      /\ CatalogKeys \subseteq StoreKeys(loaded) ) =>
        /\ genCalled = {}
        /\ json_file = fileAtStart

\* a run is over on a catalog of two lines, both in the loaded store
C6_Witness ==
    /\ pc = "done"
    /\ Len(album_data) = 2
    /\ CatalogKeys \subseteq StoreKeys(loaded)
    /\ Len(loaded) >= 1

C8_RetryExhaustion ==
    [][ /\ (pc = "gen" /\ pc' = "call") => attempt' = 0
        /\ (pc = "call" /\ pc' \in {"call", "gen"}) =>
              /\ attempt' = attempt + 1
              /\ attempt' <= retries
              /\ Len(questions'[Diff]) <= Len(questions[Diff]) =>
                    /\ questions' = questions
                    /\ (pc' = "gen") <=> (attempt' = retries)
      ]_vars

\* returned with the default retries=3 after every call failed: every
\* category of the pool was selected for each of the three difficulties and
\* had 3 attempts
C8_Witness ==
    /\ pc = "append"
    /\ retries = DefaultRetries
    /\ questions = EmptyQuestions
    /\ attempt = retries
    /\ \A i \in 1..Len(Difficulties) :
          usedAtEnd[Difficulties[i]] = Cardinality(categories)

ProviderOrder == <<"lastfm", "spotify", "discogs">>

Yielded(url) == Truthy(url) /\ url # "raise"

\* C10: the providers are called in the order Last.fm, Spotify, Discogs; a
\* provider is called only if every provider before it yielded no URL; and
\* the URL that is downloaded is the one the last provider called returned.
C10_FallbackOrder ==
    /\ Len(lookups) <= Len(ProviderOrder)
    /\ \A i \in 1..Len(lookups) :
          /\ lookups[i].provider = ProviderOrder[i]
          /\ i < Len(lookups) => ~Yielded(lookups[i].url)
    /\ pc = "spotify" => Len(lookups) = 1
    /\ pc = "discogs" => Len(lookups) = 2
    /\ pc = "download" =>
          /\ lookups # <<>>
          /\ Yielded(lookups[Len(lookups)].url)
          /\ cover_url = lookups[Len(lookups)].url

\* Last.fm and Spotify yielded nothing and the URL of Discogs is downloaded
C10_Witness ==
    /\ pc = "download"
    /\ Len(lookups) = 3
    /\ cover_url = lookups[3].url

\* C11: a provider lookup that throws is treated like one that yields no
\* URL: after Spotify's lookup has thrown, the chain is at the next
\* provider, Discogs, with no cover URL so far.
C11_ThrowIsNoResult ==
    (lookups # <<>> /\ lookups[Len(lookups)] = Lookup("spotify", "raise")) =>
        /\ pc = "discogs"
        /\ ~Truthy(cover_url)

\* C12: a run that was not terminated from outside and has ended has
\* processed its whole catalog: every album of the catalog is in the store
\* file, whatever failed on the way.
C12_EveryAlbumPersisted ==
    pc \in {"done", "aborted"} => CatalogKeys \subseteq StoreKeys(StoreOnDisk)

\* 'Artist - Album - Year - sanitizedartist_sanitizedalbum.jpg'
MissingCoverLine(e) ==
    e.artist \o <<" - ">> \o e.album \o <<" - ">> \o e.year \o <<" - ">>
        \o clean_filename(e.artist) \o <<"_">> \o clean_filename(e.album)
        \o <<".jpg">>

OneMoreLine(line) == log_file' = log_file (+) SetToBag({line})

LastOnDisk == StoreOnDisk[Len(StoreOnDisk)]

\* C13: when the chain ends with no URL from any of the three providers,
\* the missing-cover log gains exactly one line for the album, in the
\* format above, nothing else is logged until the album's record is
\* written, and the record that is written is the album's, with coverSrc
\* null.
C13_NoCoverLoggedOnce ==
    [][ /\ (pc = "discogs" /\ pc' = "gen") =>
              /\ ~Truthy(cover_url')
              /\ OneMoreLine(MissingCoverLine(CurrentEntry))
        /\ pc \in {"gen", "call", "append", "write"} => log_file' = log_file
        /\ (script = "top100" /\ pc = "write" /\ pc' = "loop" /\ ~Truthy(cover_url)) =>
              /\ StoreOnDisk' # <<>>
              /\ AlbumKey(LastOnDisk') = AlbumKey(CurrentEntry)
              /\ LastOnDisk'.year = CurrentEntry.year
              /\ LastOnDisk'.coverSrc = NoCover
      ]_vars

\* the first album of the catalog found no cover: it is in the store file
\* with coverSrc null and the log has one line for it
C13_Witness ==
    /\ script = "top100"
    /\ pc = "loop"
    /\ idx = 2
    /\ runs = 1
    /\ Len(StoreOnDisk) = 1
    /\ AlbumKey(StoreOnDisk[1]) = AlbumKey(album_data[1])
    /\ StoreOnDisk[1].coverSrc = NoCover
    /\ CopiesIn(MissingCoverLine(album_data[1]), log_file) = 1

\* C14: the step after a provider returned a URL is the download; it never
\* ends the run; it either saves the cover file and logs nothing, or saves
\* nothing and logs exactly one missing-cover line for the album; in both
\* cases generation follows and the record that is written is the album's,
\* with the cover path the logged line names as coverSrc.
C14_FailedDownloadLogged ==
    [][ /\ pc = "download" =>
              /\ pc' \in {"gen", "killed"}
              /\ pc' = "gen" =>
                    \/ /\ log_file' = log_file
                       /\ cover_path_top100(CurrentEntry) \in cover_files'
                    \/ /\ OneMoreLine(MissingCoverLine(CurrentEntry))
                       /\ cover_files' = cover_files
        /\ (Truthy(cover_url) /\ pc \in {"gen", "call", "append", "write"}) =>
              log_file' = log_file
        /\ (Truthy(cover_url) /\ pc = "write" /\ pc' = "loop") =>
              /\ StoreOnDisk' # <<>>
              /\ AlbumKey(LastOnDisk') = AlbumKey(CurrentEntry)
              /\ LastOnDisk'.coverSrc = CoverAt(cover_path_top100(CurrentEntry))
      ]_vars

\* the download of the first album's cover failed: its record is in the
\* store file, no file is at its cover path, and the log has one line
C14_Witness ==
    /\ pc = "loop"
    /\ idx = 2
    /\ runs = 1
    /\ Len(StoreOnDisk) = 1
    /\ StoreOnDisk[1].coverSrc = CoverAt(cover_path_top100(album_data[1]))
    /\ cover_path_top100(album_data[1]) \notin cover_files
    /\ CopiesIn(MissingCoverLine(album_data[1]), log_file) = 1

\* the line has two occurrences of the separator that do not overlap
\* (what str.count(' - ') >= 2 says)
TwoSeparators(l) ==
    /\ SepPositions(l) # {}
    /\ Max(SepPositions(l)) >= Min(SepPositions(l)) + 3

\* artist before the first separator, year after the last, album between
FieldsOf(l) ==
    LET first == Min(SepPositions(l))
        last  == Max(SepPositions(l))
    IN  [artist |-> SubSeq(l, 1, first - 1),
         album  |-> SubSeq(l, first + 3, last - 1),
         year   |-> SubSeq(l, last + 3, Len(l))]

\* C15: a line which, stripped of surrounding whitespace, contains two
\* occurrences of " - " is parsed into one entry: year is the text after
\* the last separator, artist the text before the first one, album
\* everything in between.
C15_LineSplit ==
    (pc = "parsed" /\ Len(lines) = 1 /\ TwoSeparators(strip(lines[1]))) =>
        album_data = <<FieldsOf(strip(lines[1]))>>

\* a line was parsed whose album contains the separator
C15_Witness ==
    /\ pc = "parsed"
    /\ Len(lines) = 1
    /\ Len(album_data) = 1
    /\ SepPositions(album_data[1].album) # {}
    /\ album_data[1].artist # <<>>
    /\ album_data[1].year # <<>>

RECURSIVE ExpectedEntries(_)
ExpectedEntries(ls) ==
    IF ls = <<>> THEN <<>>
    ELSE (IF TwoSeparators(strip(Head(ls)))
          THEN <<FieldsOf(strip(Head(ls)))>> ELSE <<>>)
         \o ExpectedEntries(Tail(ls))

\* C16: the entries returned are those of the lines that have two
\* separators, one entry per such line, in the order of the lines, repeated
\* lines included; a line with fewer than two separators gives no entry
\* and does not stop the reading.
C16_BadLinesSkipped ==
    pc = "parsed" => album_data = ExpectedEntries(lines)

\* a file of three lines, the middle one with a single separator, the
\* first and the last one the same good line: two equal entries
C16_Witness ==
    /\ pc = "parsed"
    /\ Len(lines) = 3
    /\ lines[1] = lines[3]
    /\ ~TwoSeparators(strip(lines[2]))
    /\ SepPositions(lines[2]) # {}
    /\ Len(album_data) = 2
    /\ album_data[1] = album_data[2]

\* the file holds the text of a JSON array of album records
WellStructured(f) ==
    /\ f.exists
    /\ decodable_text(f.text)
    /\ json_load_ok(f.text)
    /\ membership_test_ok(json_load(f.text))

SpotifyThrew ==
    lookups # <<>> /\ lookups[Len(lookups)] = Lookup("spotify", "raise")

\* C17: in a run that found a store file which is absent or not the text
\* of an array of album records, load_existing_json has returned the empty
\* store, and the run does not fail (the one failure of a run is the
\* Spotify lookup that throws).
C17_BadStoreIsEmptyStore ==
    /\ (pc \notin {"init", "killed"} /\ ~WellStructured(fileAtStart)) => loaded = <<>>
    /\ pc = "aborted" => SpotifyThrew

\* C18: the delay is taken between any two consecutive attempts for the
\* same category: while a further attempt is about to be made, as many
\* delays have been taken as attempts have failed.
C18_DelayBeforeEveryRetry ==
    pc = "call" => sleeps = attempt

Available == categories \ used_categories

\* C19: a retry loop that ends without a question leaves the assembler in
\* the same bucket; the run is not ended by it; and whenever the bucket is
\* short and a category is left that was not used for it, the next step
\* selects such a category for the same bucket.
C19_NextCategoryAfterExhaustion ==
    [][ /\ (pc = "call" /\ pc' = "gen" /\ questions' = questions) =>
              /\ difficulty' = difficulty
              /\ used_categories' = used_categories
              /\ attempt' = retries
        /\ pc = "call" => pc' # "aborted"
        /\ (pc = "gen" /\ pc' # "killed" /\ Len(questions[Diff]) < BucketSize
              /\ Available # {}) =>
              /\ pc' = "call"
              /\ difficulty' = difficulty
              /\ questions' = questions
              /\ selected_category' \in Available
      ]_vars

\* a second category of the same bucket is about to be tried after the
\* first one used up its retries without a question
C19_Witness ==
    /\ pc = "call"
    /\ attempt = 0
    /\ retries = DefaultRetries
    /\ Cardinality(used_categories) = 2
    /\ questions[Diff] = <<>>

\* C20: a category is selected for a bucket only if it was not selected
\* for that bucket before, and is then marked as used; within a difficulty
\* the used set only grows; when the next difficulty starts the used set
\* is empty again.
C20_NoCategoryTwicePerBucket ==
    [][ /\ (pc = "gen" /\ pc' = "call") =>
              /\ selected_category' \notin used_categories
              /\ used_categories' = used_categories \cup {selected_category'}
        /\ (pc \in {"gen", "call"} /\ pc' \in {"gen", "call"}
              /\ difficulty' = difficulty) =>
              used_categories \subseteq used_categories'
        /\ (pc \in {"gen", "call"} /\ pc' \in {"gen", "call"}
              /\ difficulty' # difficulty) =>
              /\ difficulty' = difficulty + 1
              /\ used_categories' = {}
      ]_vars

\* every category of the pool was used for the easy bucket, and one of
\* them is selected again for the medium bucket
C20_Witness ==
    /\ pc = "call"
    /\ difficulty = 2
    /\ usedAtEnd["easy"] = Cardinality(categories)
    /\ Cardinality(categories) > 1
    /\ selected_category \in categories

\* position of the first catalog line with the key
FirstPos(key) ==
    Min({n \in 1..Len(album_data) : AlbumKey(album_data[n]) = key})

\* the store is the preloaded records followed by new records whose keys
\* are catalog keys, in the order in which they come first in the catalog
NewRecordsInCatalogOrder ==
    /\ Len(trivia_data) >= Len(loaded)
    /\ SubSeq(trivia_data, 1, Len(loaded)) = loaded
    /\ \A i \in (Len(loaded) + 1)..Len(trivia_data) :
          /\ AlbumKey(trivia_data[i]) \in CatalogKeys
          /\ FirstPos(AlbumKey(trivia_data[i])) <= idx
          /\ \A j \in (i + 1)..Len(trivia_data) :
                FirstPos(AlbumKey(trivia_data[i])) < FirstPos(AlbumKey(trivia_data[j]))

C22_CoverAfterQuestions ==
    lookups # <<>> => AlbumKey(CurrentEntry) \in genCalled

IsPrefix(a, b) == Len(a) <= Len(b) /\ SubSeq(b, 1, Len(a)) = a

\* C23: within a run, the store of the last completed write (or, before
\* the first one, the store as loaded) is a prefix of the store of every
\* later completed write and of the in-memory store; outside of
\* write_json_data the store file holds exactly that store.
C23_AppendOnly ==
    [][ (Running /\ Running') =>
            /\ IsPrefix(persisted, persisted')
            /\ IsPrefix(persisted', trivia_data')
            /\ IsPrefix(trivia_data, trivia_data')
            /\ pc' # "write" => /\ StoreOnDisk' = persisted'
                                /\ trivia_data' = persisted'
      ]_vars

\* the second write of a run is going on: one record was persisted by the
\* first one, and the first piece of the new text is in the file
C23_Witness ==
    /\ pc = "write"
    /\ loaded = <<>>
    /\ Len(persisted) = 1
    /\ Len(trivia_data) = 2
    /\ Len(json_file.text) = 1

\* C24: the question set of generate_trivia_for_album has exactly the keys
\* easy, medium and hard at every point of the generation, whatever the
\* calls did, so also when it is returned; each bucket holds at most three
\* questions.
C24_ThreeKeys ==
    /\ DOMAIN questions = {"easy", "medium", "hard"}
    /\ \A d \in DOMAIN questions : Len(questions[d]) <= BucketSize

\* a question set is returned with a full, an empty and a short bucket
C24_Witness ==
    /\ pc = "append"
    /\ Len(questions["easy"]) = BucketSize
    /\ questions["medium"] = <<>>
    /\ Len(questions["hard"]) = 1

AnswerAmongOptions(q) == \A i \in 1..Len(q.members) : q.members[i] # "w"

\* C25: every question in a bucket has a correctAnswer that is one of its
\* options.
C25_AnswerAmongOptions ==
    \A d \in DOMAIN questions :
        \A i \in 1..Len(questions[d]) : AnswerAmongOptions(questions[d][i])

\* C26: an attempt whose text holds no decodable candidate appends no
\* question, counts as one attempt, and is followed by another attempt for
\* the same category exactly when fewer than `retries` attempts have been
\* made for it; the same holds of an attempt whose call raises.
C26_NoCandidateIsFailedAttempt ==
    [][ \A out \in Outcomes :
          ((out.raises \/ NoCandidate(out.text)) /\ GenAttempt(out)) =>
              /\ questions' = questions
              /\ attempt' = attempt + 1
              /\ selected_category' = selected_category
              /\ used_categories' = used_categories
              /\ difficulty' = difficulty
              /\ pc' = IF attempt' < retries THEN "call" ELSE "gen"
      ]_vars

\* the third attempt for a category is about to be made after two texts
\* without a decodable candidate, and the bucket is still empty
C26_Witness ==
    /\ pc = "call"
    /\ retries = DefaultRetries
    /\ attempt = 2
    /\ questions[Diff] = <<>>

\* the generation calls the loops of generate_trivia_for_album can still
\* make: `retries` for every category not yet used in this and the later
\* difficulties, and the rest of the attempts of the selected category
CallsLeft ==
    LET pool == Cardinality(categories)
    IN  IF pc = "append" THEN 0
        ELSE (Len(Difficulties) - difficulty) * pool * retries
             + (pool - Cardinality(used_categories)) * retries
             + (IF pc = "call" THEN retries - attempt ELSE 0)

\* C27: generate_trivia_for_album returns, and makes at most
\* 3 x (size of the pool) x retries generation calls: the number of calls
\* it can still make starts from at most that bound, never goes below
\* zero, is never raised by a step and is lowered by every call.
C27_Terminates ==
    /\ [][ /\ CallsLeft <= Len(Difficulties) * Cardinality(categories) * retries
           /\ CallsLeft' >= 0
           /\ CallsLeft' <= CallsLeft
           /\ pc = "call" => CallsLeft' < CallsLeft
         ]_vars
    /\ <>(pc = "append")

\* returned after the largest number of calls: every call failed, for every
\* category of the pool in every difficulty
C27_Witness ==
    /\ pc = "append"
    /\ retries = MaxRetries
    /\ attempt = retries
    /\ usedAtEnd = [d \in DOMAIN NoneUsed |-> Cardinality(categories)]
    /\ \A d \in DOMAIN questions : questions[d] = <<>>

\* some record of the in-memory store has the artist and the album of the
\* current catalog entry, character for character
PairInStore ==
    \E i \in 1..Len(trivia_data) :
        /\ trivia_data[i].artist = CurrentEntry.artist
        /\ trivia_data[i].album = CurrentEntry.album

Repeated(n) ==
    \E j \in 1..(n - 1) : AlbumKey(album_data[j]) = AlbumKey(album_data[n])

RecordsOf(key, store) == {i \in 1..Len(store) : AlbumKey(store[i]) = key}

\* C29: a catalog line that repeats the key of an earlier line finds the
\* key in the in-memory store and is skipped, with no generation call and
\* no change of the store; generation calls are made only for the first
\* line of a key; and when the run is over, a key of the catalog that was
\* not in the loaded store has exactly one record, after the loaded ones.
C29_RepeatedKeyOnce ==
    [][ /\ (pc = "loop" /\ idx <= Len(album_data) /\ Repeated(idx)) =>
              /\ RecordsOf(AlbumKey(CurrentEntry), trivia_data) # {}
              /\ pc' \in {"loop", "killed"}
              /\ pc' = "loop" => /\ idx' = idx + 1
                                 /\ trivia_data' = trivia_data
                                 /\ genCalled' = genCalled
        /\ (pc = "call" /\ genCalled' # {}) => ~Repeated(idx)
        /\ (pc = "append" /\ pc' = "write") =>
              /\ ~Repeated(idx)
              /\ RecordsOf(AlbumKey(CurrentEntry), trivia_data) = {}
              /\ RecordsOf(AlbumKey(CurrentEntry), trivia_data') = {Len(trivia_data')}
        /\ (pc = "loop" /\ pc' = "done") =>
              \A n \in 1..Len(album_data) :
                  RecordsOf(AlbumKey(album_data[n]), loaded) = {} =>
                      \E i \in (Len(loaded) + 1)..Len(trivia_data') :
                          RecordsOf(AlbumKey(album_data[n]), trivia_data') = {i}
      ]_vars

\* a first run is over on a catalog that holds the same line twice: one
\* record was generated and appended
C29_Witness ==
    /\ pc = "done"
    /\ runs = 1
    /\ album_data = <<CaseEntry, CaseEntry>>
    /\ genCalled = {AlbumKey(CaseEntry)}
    /\ Len(trivia_data) = 1
    /\ StoreOnDisk = trivia_data

\* the file exists and json.load does not return a value for it
CannotBeDecoded(f) ==
    /\ f.exists
    /\ ~(decodable_text(f.text) /\ json_load_ok(f.text))

\* C30: in a run that found a store file which exists and cannot be
\* decoded, the store was loaded as empty and the run does not fail on it
\* (the one failure of a run is the Spotify lookup that throws); when the
\* run is over, every album of the catalog has its record in the store
\* file, and the file of a run with an empty catalog is as it was found.
C30_CorruptedStoreIsReplaced ==
    (pc \notin {"init", "killed"} /\ CannotBeDecoded(fileAtStart)) =>
        /\ loaded = <<>>
        /\ pc = "aborted" => SpotifyThrew
        /\ pc = "done" =>
              IF album_data = <<>> THEN json_file = fileAtStart
              ELSE /\ json_file # fileAtStart
                   /\ StoreKeys(StoreOnDisk) = CatalogKeys
                   /\ genCalled = CatalogKeys

FilenameChars == {LowerCase[i] : i \in 1..26} \cup Digits \cup {"_"}

\* C31: the result of clean_filename is as long as its argument, each of
\* its characters is what clean_filename makes of the argument's character
\* at that place alone, it holds only a-z, 0-9 and "_", and clean_filename
\* returns it unchanged.
C31_CleanFilename ==
    pc = "cleaned" =>
        /\ Len(cleaned_text) = Len(clean_arg)
        /\ \A i \in 1..Len(clean_arg) :
              <<cleaned_text[i]>> = clean_filename(<<clean_arg[i]>>)
        /\ \A i \in 1..Len(cleaned_text) : cleaned_text[i] \in FilenameChars
        /\ clean_filename(cleaned_text) = cleaned_text

\* a text of a capital, a space and a digit was cleaned
C31_Witness ==
    /\ pc = "cleaned"
    /\ clean_arg = <<"A", " ", "7">>
    /\ cleaned_text = <<"a", "_", "7">>

CoverChain == {"spotify", "discogs", "download"}

\* C32: when the loop is at an album that is in the store, the next step
\* invokes no provider, starts no download, writes nothing to the
\* missing-cover log and creates no cover file; and every step of a run
\* that invokes a provider, writes a line to the log or creates a cover
\* file is taken for an album that is not in the store.
C32_SkipBeforeEffects ==
    [][ /\ ( /\ pc = "loop"
             /\ idx <= Len(album_data)
             /\ RecordsOf(AlbumKey(CurrentEntry), trivia_data) # {} ) =>
                /\ lookups' = <<>>
                /\ pc' \notin CoverChain
                /\ log_file' = log_file
                /\ cover_files' = cover_files
                /\ pc' # "killed" => cover_url' = cover_url
        /\ ( /\ Running
             /\ \/ Len(lookups') > Len(lookups)
                \/ log_file' # log_file
                \/ cover_files' # cover_files ) =>
                RecordsOf(AlbumKey(CurrentEntry), trivia_data) = {}
      ]_vars

\* top100.py has skipped the first line of a catalog, an album of the
\* loaded store, and is at the second line: no provider was asked
C32_Witness ==
    /\ pc = "loop"
    /\ script = "top100"
    /\ Len(album_data) = 2
    /\ idx = 2
    /\ RecordsOf(AlbumKey(album_data[1]), loaded) # {}
    /\ lookups = <<>>
    /\ genCalled = {}

\* C33: the attempt that appends a question is the last one of its
\* category (the next step is the choice of another category or the end of
\* the bucket); so the bucket of the difficulty in progress holds at most
\* one question for each category selected for it, none yet for the
\* category whose attempts are going on, and each finished bucket holds at
\* most as many questions as categories were selected for it.
C33_SuccessEndsRetryLoop ==
    [][ /\ (pc = "call" /\ questions' # questions) =>
              /\ pc' = "gen"
              /\ Len(questions'[Diff]) = Len(questions[Diff]) + 1
              /\ used_categories' = used_categories
        /\ pc = "gen" => Len(questions[Diff]) <= Cardinality(used_categories)
        /\ pc = "call" => Len(questions[Diff]) < Cardinality(used_categories)
        /\ \A i \in 1..(difficulty - 1) :
              Len(questions[Difficulties[i]]) <= usedAtEnd[Difficulties[i]]
      ]_vars

\* with retries=3, two categories have given their question at the first
\* attempt each: no second attempt was made for the one just finished
C33_Witness ==
    /\ pc = "gen"
    /\ retries = DefaultRetries
    /\ Cardinality(used_categories) = 2
    /\ Len(questions[Diff]) = 2
    /\ attempt = 1

\* C34: an attempt that raises is followed by a delay exactly when it is
\* not the last attempt of its category; the last one ends the retry loop
\* at once, and no delay is taken between the end of a retry loop and the
\* choice of the next category; so a category has at most retries - 1
\* delays, and exactly that many when each of its `retries` attempts
\* raised.
C34_NoDelayAfterLastAttempt ==
    [][ /\ \A out \in Outcomes :
              (AttemptValue(out, script).kind = "raise" /\ GenAttempt(out)) =>
                  /\ sleeps' = IF attempt + 1 < retries THEN sleeps + 1 ELSE sleeps
                  /\ attempt + 1 = retries => pc' = "gen"
        /\ pc = "gen" => sleeps' <= sleeps
        /\ sleeps <= attempt
        /\ sleeps < retries
      ]_vars

\* with retries=3, the three attempts of the first category have failed
\* and two delays were taken
C34_Witness ==
    /\ pc = "gen"
    /\ retries = DefaultRetries
    /\ Cardinality(used_categories) = 1
    /\ attempt = retries
    /\ sleeps = retries - 1
    /\ questions = EmptyQuestions

Logged(e) == CopiesIn(MissingCoverLine(e), log_file) >= 1

\* C35: in top100.py, every record of the store file with coverSrc null has
\* its line in the missing-cover log, in every state, a terminated run and
\* a later run included; and the line of an album without a cover URL is in
\* the log from the start of its generation, before its record is appended
\* and written.
C35_NullCoverIsLogged ==
    script = "top100" =>
        /\ \A i \in 1..Len(StoreOnDisk) :
              StoreOnDisk[i].coverSrc = NoCover => Logged(StoreOnDisk[i])
        /\ (pc \in {"gen", "call", "append", "write"} /\ ~Truthy(cover_url)) =>
              Logged(CurrentEntry)

\* the second run was terminated as the first one had been: the store file
\* holds a record without cover from each of them
C35_Witness ==
    /\ script = "top100"
    /\ pc = "killed"
    /\ runs = 2
    /\ Len(StoreOnDisk) = 2
    /\ \A i \in 1..2 : StoreOnDisk[i].coverSrc = NoCover /\ Logged(StoreOnDisk[i])

SomeProviderYielded(calls) ==
    \E i \in 1..Len(calls) : calls[i].url \notin {NoUrl, EmptyUrl, "raise"}

\* C36: in top100.py, the chain ends without a download exactly when no
\* provider called for the album yielded a non-empty URL; from the end of
\* the chain to the write of the record, cover_url is what the chain left,
\* whether the download succeeded or not; and the record that is appended
\* and written has coverSrc null if the chain ended without a download and
\* the sanitized cover path if it ended with one.
C36_CoverSrcFollowsUrl ==
    [][ script = "top100" =>
          /\ (pc \in {"loop", "spotify", "discogs"} /\ pc' = "download") =>
                /\ SomeProviderYielded(lookups')
                /\ Truthy(cover_url')
          /\ (pc = "discogs" /\ pc' = "gen") =>
                /\ ~SomeProviderYielded(lookups)
                /\ ~Truthy(cover_url')
          /\ (pc = "download" /\ pc' = "gen") =>
                /\ SomeProviderYielded(lookups)
                /\ cover_url' = cover_url
                /\ Truthy(cover_url')
          /\ (pc \in {"gen", "call", "append", "write"} /\ pc' # "killed") =>
                cover_url' = cover_url
          /\ (pc = "append" /\ pc' = "write") =>
                trivia_data'[Len(trivia_data')].coverSrc =
                    IF Truthy(cover_url) THEN CoverAt(cover_path_top100(CurrentEntry))
                    ELSE NoCover
          /\ (pc = "write" /\ pc' = "loop") =>
                /\ StoreOnDisk' = trivia_data
                /\ LastOnDisk'.coverSrc = NoCover <=> ~Truthy(cover_url)
      ]_vars

\* a run is over in which no provider had a URL for the first album, and
\* the download of the second album's cover failed: the first record has
\* coverSrc null, the second the cover path, and no cover file exists
C36_Witness ==
    /\ script = "top100"
    /\ pc = "done"
    /\ runs = 1
    /\ Len(StoreOnDisk) = 2
    /\ StoreOnDisk[1].coverSrc = NoCover
    /\ StoreOnDisk[2].coverSrc = CoverAt(cover_path_top100(album_data[2]))
    /\ cover_files = {}

====
